---- MODULE Spec2Model ----
(***************************************************************************)
(* Model of the untis client (package untis): the process-wide registry    *)
(* activeClients, the Client records callers hold pointers to, and the     *)
(* operations on them.  Every call is one action; the remote service is    *)
(* the environment and answers every request with an arbitrary exchange.  *)
(***************************************************************************)
EXTENDS Integers, Sequences, FiniteSets, TLC

VARIABLES
    activeClients,  \* the registry: username -> Client, stored by value
    heap,           \* the Client records callers hold pointers to
    issued,         \* username -> the pointer CreateClient returned for its entry
    last,           \* the most recent call: receiver, inputs, requests, result
    callers         \* calls that run at the same time: where each one stands

vars == <<activeClients, heap, issued, last, callers>>

----------------------------------------------------------------------------
(* Bounds of the model *)

\* number of *Client pointers handed out to callers
MaxHandles == 2
\* largest number of records in a getTimetable result
MaxRecords == 2

----------------------------------------------------------------------------
(* Strings that the code takes apart are sequences of one-character strings *)

Digit == <<"0", "1", "2", "3", "4", "5", "6", "7", "8", "9">>

DigitChars == {Digit[i] : i \in 1..10}

DigitVal(c) == (CHOOSE i \in 1..10 : Digit[i] = c) - 1

RECURSIVE ItoaNat(_)
ItoaNat(n) == IF n < 10 THEN <<Digit[n + 1]>>
              ELSE ItoaNat(n \div 10) \o <<Digit[(n % 10) + 1]>>

\* strconv.Itoa
Itoa(n) == IF n < 0 THEN <<"-">> \o ItoaNat(-n) ELSE ItoaNat(n)

RECURSIVE DigitsVal(_, _)
DigitsVal(s, acc) == IF s = <<>> THEN acc
                     ELSE DigitsVal(Tail(s), acc * 10 + DigitVal(Head(s)))

AllDigits(s) == \A i \in 1..Len(s) : s[i] \in DigitChars

\* strconv.Atoi with its error dropped (`v, _ := strconv.Atoi(s)`): an
\* optional sign and then one or more decimal digits; anything else is 0
Atoi(s) ==
    LET signed == Len(s) > 0 /\ s[1] \in {"+", "-"}
        body   == IF signed THEN Tail(s) ELSE s
    IN  IF body = <<>> \/ ~AllDigits(body) THEN 0
        ELSE IF signed /\ s[1] = "-" THEN -DigitsVal(body, 0)
        ELSE DigitsVal(body, 0)

----------------------------------------------------------------------------
(* JSON values of an untyped result map (map[string]interface{}) *)

JAbsent == [k |-> "absent", s |-> "", n |-> 0]
JStr(str) == [k |-> "string", s |-> str, n |-> 0]
\* a JSON number, held in tenths so that 2.5 is JNum(25)
JNum(tenths) == [k |-> "number", s |-> "", n |-> tenths]

\* v.(string) panics unless v holds a string
IsString(v) == v.k = "string"

\* f, _ := v.(float64): the zero value when v holds no number
AsFloat(v) == IF v.k = "number" THEN v.n ELSE 0

\* int(f): truncation toward zero
IntOfFloat(tenths) == IF tenths >= 0 THEN tenths \div 10 ELSE -((-tenths) \div 10)

----------------------------------------------------------------------------
(* Client records *)

Usernames == {"jdoe", "asmith"}
Passwords == {"secret"}

\* the zero value of Client, what a map lookup of a missing key yields
ZeroClient ==
    [Username |-> "", Password |-> "", SessionID |-> "", PersonType |-> 0,
     PersonID |-> 0, Closed |-> FALSE, Authenticated |-> FALSE]

NewClient(username, password) ==
    [Username |-> username, Password |-> password, SessionID |-> "",
     PersonType |-> -1, PersonID |-> -1, Closed |-> FALSE,
     Authenticated |-> FALSE]

Handles == 1..Len(heap)

----------------------------------------------------------------------------
(* The remote service: what one HTTP round trip yields *)

\* A request id drawn by rand.Intn and the id string of the answer to it
IdPair(reqId, respId) == [reqId |-> reqId, respId |-> respId]

IdPairs ==
    {IdPair(5, <<"5">>), IdPair(12, <<"1", "2">>), IdPair(0, <<"0">>),
     IdPair(5, <<"1", "2">>), IdPair(12, <<"5">>), IdPair(5, <<"0", "5">>),
     IdPair(5, <<"+", "5">>), IdPair(5, <<"a">>), IdPair(0, <<"a">>),
     IdPair(0, <<>>), IdPair(12, <<>>)}

\* status "neterr": the POST or the read of the body fails;
\* status "badjson": json.Unmarshal rejects the body
FailedExchange(status) ==
    [status |-> status, reqId |-> 0, respId |-> <<>>, result |-> <<>>]

OkExchange(reqId, respId, result) ==
    [status |-> "ok", reqId |-> reqId, respId |-> respId, result |-> result]

FailedExchanges == {FailedExchange(s) : s \in {"neterr", "badjson"}}

\* the error a failed round trip is returned as
ExchangeErr(ex) == IF ex.status = "neterr" THEN "transport" ELSE "decode"

\* one round trip as seen on the wire: the request and the answer to it
\* (params holds <<id, type>> of a getTimetable request and is empty otherwise)
Trip(method, hasCookie, cookie, params, ex) ==
    [method |-> method, hasCookie |-> hasCookie, cookie |-> cookie,
     params |-> params, reqId |-> ex.reqId, status |-> ex.status,
     respId |-> ex.respId]

\* results of the authenticate method
AuthResult(sessionId, personType, personId) ==
    [sessionId |-> sessionId, personType |-> personType, personId |-> personId]

AuthResults ==
    {AuthResult(JStr("ABC123"), JNum(20), JNum(50)),
     AuthResult(JStr("XYZ789"), JNum(25), JNum(-15)),
     AuthResult(JStr(""), JStr("2"), JAbsent),
     AuthResult(JAbsent, JNum(20), JNum(50)),
     AuthResult(JNum(70), JNum(20), JNum(50)),
     AuthResult(JAbsent, JAbsent, JAbsent)}

AuthExchanges ==
    FailedExchanges \cup
    {OkExchange(p.reqId, p.respId, res) : p \in IdPairs, res \in AuthResults}

\* a few of them: no answer, a correlated answer with and without a string
\* sessionId, and an answer to another request
FewAuthExchanges ==
    {FailedExchange("neterr"),
     OkExchange(5, <<"5">>, AuthResult(JStr("ABC123"), JNum(20), JNum(50))),
     OkExchange(5, <<"5">>, AuthResult(JAbsent, JAbsent, JAbsent)),
     OkExchange(5, <<"1", "2">>, AuthResult(JStr("ABC123"), JNum(20), JNum(50)))}

\* the answer to logout is never read
LogoutExchanges == {FailedExchange("neterr"), OkExchange(5, <<"5">>, <<>>)}

----------------------------------------------------------------------------
(* The record of the most recent call *)

NoList == [nil |-> TRUE, list |-> <<>>]
NoArg == [none |-> TRUE]

Call(op, h, pre, arg, err, net) ==
    [op |-> op, h |-> h, pre |-> pre, arg |-> arg, err |-> err, net |-> net,
     names |-> NoList, id |-> 0, lessons |-> NoList]

\* the goroutines that may be inside Authenticate or Close at the same time
Callers == {1, 2}

\* no call is under way: every caller is outside of a call, and no call was
\* begun, no handshake accepted and no logout sent
NoCalls ==
    [pc |-> [c \in Callers |-> "idle"],
     got |-> [c \in Callers |-> NoArg],
     begun |-> 0, handshakes |-> 0, logouts |-> 0]

----------------------------------------------------------------------------
(* Registry *)

Init ==
    /\ activeClients = [u \in {} |-> ZeroClient]
    /\ heap = <<>>
    /\ issued = [u \in {} |-> 0]
    /\ callers = NoCalls
    /\ last = Call("init", 0, ZeroClient, NoArg, "nil", <<>>)

\* activeClients[username] = client
Put(map, username, client) ==
    [u \in DOMAIN map \cup {username} |->
        IF u = username THEN client ELSE map[u]]

\* client := activeClients[username]
Lookup(map, username) ==
    IF username \in DOMAIN map THEN map[username] ELSE ZeroClient

\* delete(activeClients, username)
Delete(map, username) == [u \in DOMAIN map \ {username} |-> map[u]]

\* CreateClient stores one copy of the new record in the registry and returns a
\* pointer to another; keep says whether the caller holds on to the pointer
CreateClient(username, password, keep) ==
    LET client == NewClient(username, password) IN
    /\ keep => Len(heap) < MaxHandles
    /\ activeClients' = Put(activeClients, username, client)
    /\ heap' = IF keep THEN Append(heap, client) ELSE heap
    /\ issued' = Put(issued, username, IF keep THEN Len(heap) + 1 ELSE 0)
    /\ last' = Call("CreateClient", IF keep THEN Len(heap) + 1 ELSE 0,
                    ZeroClient, [username |-> username], "nil", <<>>)
    /\ UNCHANGED callers

\* GetClient on a map whose lookup makes the entry it does not find
GetClientInserts(username) ==
    LET client == Lookup(activeClients, username) IN
    /\ Len(heap) < MaxHandles
    /\ heap' = Append(heap, client)
    /\ activeClients' = Put(activeClients, username, client)
    /\ last' = Call("GetClient", Len(heap) + 1, ZeroClient,
                    [username |-> username], "nil", <<>>)
    /\ UNCHANGED <<issued, callers>>

\* GetClient returns a pointer to a copy of the registry's record
GetClient(username) ==
    LET client == Lookup(activeClients, username) IN
    /\ Len(heap) < MaxHandles
    /\ heap' = Append(heap, client)
    /\ last' = Call("GetClient", Len(heap) + 1, ZeroClient,
                    [username |-> username], "nil", <<>>)
    /\ UNCHANGED <<activeClients, issued, callers>>

\* DeleteClient with a pointer receiver that also ends the session
DeleteClientCloses(h) ==
    /\ activeClients' = Delete(activeClients, heap[h].Username)
    /\ issued' = Delete(issued, heap[h].Username)
    /\ heap' = [heap EXCEPT ![h].Authenticated = FALSE, ![h].Closed = TRUE]
    /\ last' = Call("DeleteClient", h, heap[h], NoArg, "nil", <<>>)
    /\ UNCHANGED callers

\* DeleteClient has a value receiver and removes the entry of its Username
DeleteClient(h) ==
    /\ activeClients' = Delete(activeClients, heap[h].Username)
    /\ issued' = Delete(issued, heap[h].Username)
    /\ last' = Call("DeleteClient", h, heap[h], NoArg, "nil", <<>>)
    /\ UNCHANGED <<heap, callers>>

----------------------------------------------------------------------------
(* Session *)

\* SameID comparing numbers, as the other operations do
SameNumber(respId, reqId) == Atoi(respId) = reqId

\* r.ID == strconv.Itoa(id)
SameID(respId, reqId) == respId = Itoa(reqId)

\* SetSession with the two person fields taken from each other's value
SetSessionSwapped(client, sessionId, personType, personID) ==
    [client EXCEPT !.SessionID = sessionId,
                   !.PersonType = IntOfFloat(personID),
                   !.PersonID = IntOfFloat(personType),
                   !.Authenticated = TRUE,
                   !.Closed = FALSE]

\* the assignments of a successful handshake
SetSession(client, sessionId, personType, personID) ==
    [client EXCEPT !.SessionID = sessionId,
                   !.PersonType = IntOfFloat(personType),
                   !.PersonID = IntOfFloat(personID),
                   !.Authenticated = TRUE,
                   !.Closed = FALSE]

\* Handshake that takes sessionId the way it takes the two person fields, as
\* `sessionId, _ := r.Result["sessionId"].(string)`
HandshakeCommaOk(client, ex) ==
    LET net == <<Trip("authenticate", FALSE, "", <<>>, ex)>> IN
    IF ex.status # "ok"
    THEN [client |-> client, err |-> ExchangeErr(ex), net |-> net]
    ELSE IF SameID(ex.respId, ex.reqId)
    THEN [client |-> SetSession(client,
                                IF IsString(ex.result.sessionId)
                                THEN ex.result.sessionId.s ELSE "",
                                AsFloat(ex.result.personType),
                                AsFloat(ex.result.personId)),
          err |-> "nil", net |-> net]
    ELSE [client |-> client, err |-> "IDs not matching", net |-> net]

\* Authenticate past its guard: the record after the call, the error and the
\* round trip
Handshake(client, ex) ==
    LET net == <<Trip("authenticate", FALSE, "", <<>>, ex)>> IN
    IF ex.status # "ok"
    THEN [client |-> client, err |-> ExchangeErr(ex), net |-> net]
    ELSE
      LET personType == AsFloat(ex.result.personType)
          personID   == AsFloat(ex.result.personId)
      IN  IF SameID(ex.respId, ex.reqId)
          THEN IF ~IsString(ex.result.sessionId)
               THEN \* the type assertion fails before anything is assigned
                    [client |-> client, err |-> "panic", net |-> net]
               ELSE [client |-> SetSession(client, ex.result.sessionId.s,
                                           personType, personID),
                     err |-> "nil", net |-> net]
          ELSE [client |-> client, err |-> "IDs not matching", net |-> net]

\* Authenticate that refuses a closed record too
AuthenticateOnce(client, ex) ==
    IF client.Authenticated \/ client.Closed
    THEN [client |-> client, err |-> "already authenticated", net |-> <<>>]
    ELSE Handshake(client, ex)

\* Authenticate without its guard
AuthenticateUnguarded(client, ex) == Handshake(client, ex)

Authenticate(client, ex) ==
    IF client.Authenticated
    THEN [client |-> client, err |-> "already authenticated", net |-> <<>>]
    ELSE Handshake(client, ex)

\* sendRequest that posts the way Authenticate does, without a cookie
sendRequestNoCookie(client, method, params, ex) ==
    [trip |-> Trip(method, FALSE, "", params, ex),
     err |-> IF ex.status = "neterr" THEN "transport" ELSE "nil"]

\* sendRequest: one POST carrying the JSESSIONID cookie of the receiver
sendRequest(client, method, params, ex) ==
    [trip |-> Trip(method, TRUE, client.SessionID, params, ex),
     err |-> IF ex.status = "neterr" THEN "transport" ELSE "nil"]

\* Logout that leaves Authenticated set
LogoutKeepsAuthenticated(client, ex) ==
    LET closed == [client EXCEPT !.Closed = TRUE]
        sent   == sendRequest(closed, "logout", <<>>, ex)
    IN  [client |-> closed, err |-> sent.err, net |-> <<sent.trip>>]

\* Logout that sets the flags only once logout went through
LogoutThenClose(client, ex) ==
    LET sent == sendRequest(client, "logout", <<>>, ex) IN
    IF sent.err # "nil"
    THEN [client |-> client, err |-> sent.err, net |-> <<sent.trip>>]
    ELSE [client |-> [client EXCEPT !.Closed = TRUE, !.Authenticated = FALSE],
          err |-> "nil", net |-> <<sent.trip>>]

\* Close past its guard: the flags are set before logout is sent, and the
\* answer is not read
Logout(client, ex) ==
    LET closed == [client EXCEPT !.Closed = TRUE, !.Authenticated = FALSE]
        sent   == sendRequest(closed, "logout", <<>>, ex)
    IN  [client |-> closed, err |-> sent.err, net |-> <<sent.trip>>]

Close(client, ex) ==
    IF ~client.Authenticated
    THEN [client |-> client, err |-> "not authenticated", net |-> <<>>]
    ELSE Logout(client, ex)

----------------------------------------------------------------------------
(* Reference data *)

NilNames == [nil |-> TRUE, list |-> <<>>]
Names(list) == [nil |-> FALSE, list |-> list]

\* ScanListing without its comparison of ids
RECURSIVE ScanListingAll(_, _)
ScanListingAll(id, listing) ==
    IF listing = <<>> THEN <<>>
    ELSE <<Head(listing).Name>> \o ScanListingAll(id, Tail(listing))

\* the inner loop of the resolvers: every record of the listing whose ID is
\* id appends its Name
RECURSIVE ScanListing(_, _)
ScanListing(id, listing) ==
    IF listing = <<>> THEN <<>>
    ELSE (IF id = Head(listing).ID THEN <<Head(listing).Name>> ELSE <<>>)
         \o ScanListing(id, Tail(listing))

\* the outer loop of the resolvers: one scan of the listing per input id
RECURSIVE ScanIds(_, _)
ScanIds(ids, listing) ==
    IF ids = <<>> THEN <<>>
    ELSE ScanListing(Head(ids), listing) \o ScanIds(Tail(ids), listing)

\* rid, _ := strconv.Atoi(r.ID); rid == id
Correlates(ex) == Atoi(ex.respId) = ex.reqId

\* the part the three id-list resolvers share: one round trip, then the scan
ResolveNames(client, method, ids, ex) ==
    IF ~client.Authenticated
    THEN [err |-> "not authenticated", names |-> NilNames, net |-> <<>>]
    ELSE
      LET sent == sendRequest(client, method, <<>>, ex) IN
      IF ex.status # "ok"
      THEN [err |-> ExchangeErr(ex), names |-> NilNames, net |-> <<sent.trip>>]
      ELSE IF Correlates(ex)
      THEN [err |-> "nil", names |-> Names(ScanIds(ids, ex.result)),
            net |-> <<sent.trip>>]
      ELSE [err |-> "ids not matching", names |-> NilNames,
            net |-> <<sent.trip>>]

ResolveTeachers(client, ids, ex) == ResolveNames(client, "getTeachers", ids, ex)

ResolveRooms(client, ids, ex) == ResolveNames(client, "getRooms", ids, ex)

ResolveClasses(client, ids, ex) == ResolveNames(client, "getKlassen", ids, ex)

Lower == <<"a", "b", "c", "d", "e", "f", "g", "h", "i", "j", "k", "l", "m",
           "n", "o", "p", "q", "r", "s", "t", "u", "v", "w", "x", "y", "z">>
Upper == <<"A", "B", "C", "D", "E", "F", "G", "H", "I", "J", "K", "L", "M",
           "N", "O", "P", "Q", "R", "S", "T", "U", "V", "W", "X", "Y", "Z">>

\* strings.ToUpper on the letters the model uses
ToUpper(str) ==
    [i \in 1..Len(str) |->
        IF \E j \in 1..26 : Lower[j] = str[i]
        THEN Upper[CHOOSE j \in 1..26 : Lower[j] = str[i]]
        ELSE str[i]]

\* strings.Split(str, " "): the pieces between the spaces, at least one
RECURSIVE SplitFrom(_, _)
SplitFrom(str, piece) ==
    IF str = <<>> THEN <<piece>>
    ELSE IF Head(str) = " " THEN <<piece>> \o SplitFrom(Tail(str), <<>>)
    ELSE SplitFrom(Tail(str), Append(piece, Head(str)))

Split(str) == SplitFrom(str, <<>>)

\* the scan of ResolveTeacherID: the first record with that forename and surname
RECURSIVE FindTeacher(_, _, _)
FindTeacher(forename, longname, listing) ==
    IF listing = <<>> THEN [found |-> FALSE, id |-> -1]
    ELSE LET res == Head(listing)
             surname == Split(res.LongName)[1]
         IN  IF forename = res.ForeName /\ longname = surname
             THEN [found |-> TRUE, id |-> res.ID]
             ELSE FindTeacher(forename, longname, Tail(listing))

ResolveTeacherID(client, teacher, ex) ==
    IF ~client.Authenticated
    THEN [err |-> "not authenticated", id |-> -1, net |-> <<>>]
    ELSE
      LET sent == sendRequest(client, "getTeachers", <<>>, ex) IN
      IF ex.status # "ok"
      THEN [err |-> ExchangeErr(ex), id |-> -1, net |-> <<sent.trip>>]
      ELSE IF Correlates(ex)
      THEN
        LET split == Split(teacher) IN
        IF Len(split) < 2
        THEN [err |-> "panic", id |-> -1, net |-> <<sent.trip>>]
        ELSE
          LET hit == FindTeacher(split[1], ToUpper(split[2]), ex.result) IN
          IF hit.found
          THEN [err |-> "nil", id |-> hit.id, net |-> <<sent.trip>>]
          ELSE [err |-> "teacher not found", id |-> -1, net |-> <<sent.trip>>]
      ELSE [err |-> "ids not matching", id |-> -1, net |-> <<sent.trip>>]

\* the scan of ResolveClassID: the first record with that name
RECURSIVE FindClass(_, _)
FindClass(class, listing) ==
    IF listing = <<>> THEN [found |-> FALSE, id |-> -1]
    ELSE IF class = Head(listing).Name
         THEN [found |-> TRUE, id |-> Head(listing).ID]
         ELSE FindClass(class, Tail(listing))

ResolveClassID(client, class, ex) ==
    IF ~client.Authenticated
    THEN [err |-> "not authenticated", id |-> -1, net |-> <<>>]
    ELSE
      LET sent == sendRequest(client, "getKlassen", <<>>, ex) IN
      IF ex.status # "ok"
      THEN [err |-> ExchangeErr(ex), id |-> -1, net |-> <<sent.trip>>]
      ELSE IF Correlates(ex)
      THEN
        LET hit == FindClass(class, ex.result) IN
        IF hit.found
        THEN [err |-> "nil", id |-> hit.id, net |-> <<sent.trip>>]
        ELSE [err |-> "class not found", id |-> -1, net |-> <<sent.trip>>]
      ELSE [err |-> "ids not matching", id |-> -1, net |-> <<sent.trip>>]

----------------------------------------------------------------------------
(* Timetable *)

\* the value of a one-element set
Only(set) == CHOOSE x \in set : TRUE

NilLessons == [nil |-> TRUE, list |-> <<>>]
Lessons(list) == [nil |-> FALSE, list |-> list]

\* the arguments of time.Date(year, month, day, hour, minute, 0, 0, time.UTC)
Date(year, month, day, hour, minute) ==
    [year |-> year, month |-> month, day |-> day, hour |-> hour,
     minute |-> minute]

\* IDs whose loop puts each id in front of the ones before it
RECURSIVE IDsPrepended(_)
IDsPrepended(refs) ==
    IF refs = <<>> THEN <<>> ELSE IDsPrepended(Tail(refs)) \o <<Head(refs).ID>>

\* for _, kls := range l.Kl { classIDArr = append(classIDArr, kls.ID) }
RECURSIVE IDs(_)
IDs(refs) == IF refs = <<>> THEN <<>> ELSE <<Head(refs).ID>> \o IDs(Tail(refs))

\* the body of the loop over r.Result: one record l and the answers its three
\* resolver calls get
Lesson(client, l, script) ==
    LET date == Itoa(l.Date)
        startTime == Itoa(l.StartTime)
        endTime == Itoa(l.EndTime)
    IN
    IF Len(date) < 8 \/ Len(startTime) < 2 \/ Len(endTime) < 2
    THEN \* a slice bound out of range
         [err |-> "panic", net |-> <<>>]
    ELSE
      LET year == Atoi(SubSeq(date, 1, 4))
          month == Atoi(SubSeq(date, 5, 6))
          day == Atoi(SubSeq(date, 7, 8))
          startHour == Atoi(SubSeq(startTime, 1, Len(startTime) - 2))
          startMinute ==
              Atoi(SubSeq(startTime, Len(startTime) - 1, Len(startTime)))
          endHour == Atoi(SubSeq(endTime, 1, Len(endTime) - 2))
          endMinute == Atoi(SubSeq(endTime, Len(endTime) - 1, Len(endTime)))
          classIDArr == IDs(l.Kl)
          teachIDArr == IDs(l.Te)
          roomIDArr == IDs(l.Ro)
          classArr == ResolveClasses(client, classIDArr, script[1])
          teachArr == ResolveTeachers(client, teachIDArr, script[2])
          roomArr == ResolveRooms(client, roomIDArr, script[3])
      IN
      IF classArr.err # "nil"
      THEN [err |-> classArr.err, net |-> classArr.net]
      ELSE IF teachArr.err # "nil"
      THEN [err |-> teachArr.err, net |-> classArr.net \o teachArr.net]
      ELSE IF roomArr.err # "nil"
      THEN [err |-> roomArr.err,
            net |-> classArr.net \o teachArr.net \o roomArr.net]
      ELSE [err |-> "nil",
            net |-> classArr.net \o teachArr.net \o roomArr.net,
            lesson |->
                [Start |-> Date(year, month, day, startHour, startMinute),
                 End |-> Date(year, month, day, endHour, endMinute),
                 ClassIDs |-> classIDArr, Classes |-> classArr.names.list,
                 TeacherIDs |-> teachIDArr, Teachers |-> teachArr.names.list,
                 RoomIDs |-> roomIDArr, Rooms |-> roomArr.names.list]]

\* Normalize that hands back the lessons built before the failing record
RECURSIVE NormalizePartial(_, _, _, _)
NormalizePartial(client, records, script, lessons) ==
    IF records = <<>>
    THEN [err |-> "nil", lessons |-> Lessons(lessons), net |-> <<>>]
    ELSE Only({
        IF one.err # "nil"
        THEN [err |-> one.err, lessons |-> Lessons(lessons), net |-> one.net]
        ELSE Only({[err |-> rest.err, lessons |-> rest.lessons,
                    net |-> one.net \o rest.net] :
                   rest \in {NormalizePartial(client, Tail(records),
                                              SubSeq(script, 4, Len(script)),
                                              Append(lessons, one.lesson))}}) :
        one \in {Lesson(client, Head(records), script)}})

\* the loop over r.Result: lessons holds the lessons appended so far, and the
\* first record that fails ends the call with no lessons at all
RECURSIVE Normalize(_, _, _, _)
Normalize(client, records, script, lessons) ==
    IF records = <<>>
    THEN [err |-> "nil", lessons |-> Lessons(lessons), net |-> <<>>]
    ELSE Only({
        IF one.err # "nil"
        THEN [err |-> one.err, lessons |-> NilLessons, net |-> one.net]
        ELSE Only({[err |-> rest.err, lessons |-> rest.lessons,
                    net |-> one.net \o rest.net] :
                   rest \in {Normalize(client, Tail(records),
                                       SubSeq(script, 4, Len(script)),
                                       Append(lessons, one.lesson))}}) :
        one \in {Lesson(client, Head(records), script)}})

\* Timetable that sends getTimetable once more when it got no answer
TimetableResent(client, id, type, ex, script, net) ==
    LET sent == sendRequest(client, "getTimetable", <<id, type>>, ex) IN
    IF ex.status # "ok"
    THEN [err |-> ExchangeErr(ex), lessons |-> NilLessons,
          net |-> Append(Append(net, sent.trip), sent.trip)]
    ELSE IF Correlates(ex)
    THEN Only({[err |-> r.err, lessons |-> r.lessons,
                net |-> Append(net, sent.trip) \o r.net] :
               r \in {Normalize(client, ex.result, script, <<>>)}})
    ELSE [err |-> "ids not matching", lessons |-> NilLessons,
          net |-> Append(net, sent.trip)]

\* what follows the name resolution in all three variants: the getTimetable
\* round trip for id and type, the correlation check and the loop
Timetable(client, id, type, ex, script, net) ==
    LET sent == sendRequest(client, "getTimetable", <<id, type>>, ex) IN
    IF ex.status # "ok"
    THEN [err |-> ExchangeErr(ex), lessons |-> NilLessons,
          net |-> Append(net, sent.trip)]
    ELSE IF Correlates(ex)
    THEN Only({[err |-> r.err, lessons |-> r.lessons,
                net |-> Append(net, sent.trip) \o r.net] :
               r \in {Normalize(client, ex.result, script, <<>>)}})
    ELSE [err |-> "ids not matching", lessons |-> NilLessons,
          net |-> Append(net, sent.trip)]

\* GetTimetableOfTeacher without its guard
GetTimetableOfTeacherUnchecked(client, ex, script) ==
    Timetable(client, client.PersonID, client.PersonType, ex, script, <<>>)

GetTimetableOfTeacher(client, ex, script) ==
    IF ~client.Authenticated
    THEN [err |-> "not authenticated", lessons |-> NilLessons, net |-> <<>>]
    ELSE Timetable(client, client.PersonID, client.PersonType, ex, script, <<>>)

\* the error of ResolveClassID is dropped: getTimetable is sent for whatever
\* id it returned
GetTimetableOfClass(client, class, nameEx, ex, script) ==
    IF ~client.Authenticated
    THEN [err |-> "not authenticated", lessons |-> NilLessons, net |-> <<>>]
    ELSE LET classID == ResolveClassID(client, class, nameEx) IN
         Timetable(client, classID.id, 1, ex, script, classID.net)

GetTimetableOfSpecificTeacher(client, teacher, nameEx, ex, script) ==
    IF ~client.Authenticated
    THEN [err |-> "not authenticated", lessons |-> NilLessons, net |-> <<>>]
    ELSE LET id == ResolveTeacherID(client, teacher, nameEx) IN
         IF id.err # "nil"
         THEN [err |-> id.err, lessons |-> NilLessons, net |-> id.net]
         ELSE Timetable(client, id.id, 2, ex, script, id.net)

----------------------------------------------------------------------------
(* Lesson numbers *)

\* what start.Hour() and start.Minute() can be
Hours == 0..23
Minutes == 0..59

\* GetLessonNrByStart whose cases fall through to the next one, as those of a
\* C switch do
GetLessonNrByStartFallthrough(hour, minute) ==
    CASE hour = 8 -> IF minute = 0 THEN 1 ELSE IF minute = 50 THEN 2 ELSE 3
      [] hour = 9 -> 3
      [] hour = 10 -> 4
      [] hour = 11 -> 5
      [] hour = 12 -> 6
      [] hour = 13 -> 7
      [] hour = 14 -> 8
      [] hour = 15 -> 9
      [] hour = 16 -> 10
      [] hour = 17 -> IF minute = 0 THEN 11 ELSE IF minute = 45 THEN 12 ELSE 13
      [] hour = 18 -> 13
      [] hour = 19 -> 14
      [] hour = 20 -> 15
      [] OTHER -> -1

\* the switch on start.Hour(): a case that returns nothing leaves the switch
GetLessonNrByStart(hour, minute) ==
    CASE hour = 8 -> IF minute = 0 THEN 1 ELSE IF minute = 50 THEN 2 ELSE -1
      [] hour = 9 -> 3
      [] hour = 10 -> 4
      [] hour = 11 -> 5
      [] hour = 12 -> 6
      [] hour = 13 -> 7
      [] hour = 14 -> 8
      [] hour = 15 -> 9
      [] hour = 16 -> 10
      [] hour = 17 -> IF minute = 0 THEN 11 ELSE IF minute = 45 THEN 12 ELSE -1
      [] hour = 18 -> 13
      [] hour = 19 -> 14
      [] hour = 20 -> 15
      [] OTHER -> -1

\* GetLessonNrByEnd with the half-hour rule of GetLessonNrByStart put on
\* hour 17 as well
GetLessonNrByEndLikeStart(hour, minute) ==
    CASE hour = 8 -> 1
      [] hour = 9 -> 2
      [] hour = 10 -> 3
      [] hour = 11 -> 4
      [] hour = 12 -> 5
      [] hour = 13 -> 6
      [] hour = 14 -> 7
      [] hour = 15 -> 8
      [] hour = 16 -> IF minute = 0 THEN 9 ELSE IF minute = 50 THEN 10 ELSE -1
      [] hour = 17 -> IF minute = 0 THEN 11 ELSE IF minute = 45 THEN 12 ELSE -1
      [] hour = 18 -> 12
      [] hour = 19 -> 13
      [] hour = 20 -> 14
      [] hour = 21 -> 15
      [] OTHER -> -1

\* the switch on end.Hour()
GetLessonNrByEnd(hour, minute) ==
    CASE hour = 8 -> 1
      [] hour = 9 -> 2
      [] hour = 10 -> 3
      [] hour = 11 -> 4
      [] hour = 12 -> 5
      [] hour = 13 -> 6
      [] hour = 14 -> 7
      [] hour = 15 -> 8
      [] hour = 16 -> IF minute = 0 THEN 9 ELSE IF minute = 50 THEN 10 ELSE -1
      [] hour = 17 -> 11
      [] hour = 18 -> 12
      [] hour = 19 -> 13
      [] hour = 20 -> 14
      [] hour = 21 -> 15
      [] OTHER -> -1

----------------------------------------------------------------------------
(* Calls on a handle: the receiver is heap[h]; only Authenticate and Close
   have pointer receivers *)

AuthenticateCall(h, ex) ==
    \E r \in {Authenticate(heap[h], ex)} :
    /\ heap' = [heap EXCEPT ![h] = r.client]
    /\ last' = Call("Authenticate", h, heap[h],
                    IF r.net = <<>> \/ ex.status # "ok" THEN NoArg
                    ELSE [result |-> ex.result],
                    r.err, r.net)
    /\ UNCHANGED <<activeClients, issued, callers>>

CloseCall(h, ex) ==
    \E r \in {Close(heap[h], ex)} :
    /\ heap' = [heap EXCEPT ![h] = r.client]
    /\ last' = Call("Close", h, heap[h], NoArg, r.err, r.net)
    /\ UNCHANGED <<activeClients, issued, callers>>

ResolveTeachersCall(h, ids, ex) ==
    \E r \in {ResolveTeachers(heap[h], ids, ex)} :
    /\ last' = [Call("ResolveTeachers", h, heap[h],
                     IF r.net = <<>> THEN NoArg
                     ELSE [ids |-> ids, result |-> ex.result], r.err, r.net)
                EXCEPT !.names = r.names]
    /\ UNCHANGED <<activeClients, heap, issued, callers>>

ResolveRoomsCall(h, ids, ex) ==
    \E r \in {ResolveRooms(heap[h], ids, ex)} :
    /\ last' = [Call("ResolveRooms", h, heap[h],
                     IF r.net = <<>> THEN NoArg
                     ELSE [ids |-> ids, result |-> ex.result], r.err, r.net)
                EXCEPT !.names = r.names]
    /\ UNCHANGED <<activeClients, heap, issued, callers>>

ResolveClassesCall(h, ids, ex) ==
    \E r \in {ResolveClasses(heap[h], ids, ex)} :
    /\ last' = [Call("ResolveClasses", h, heap[h],
                     IF r.net = <<>> THEN NoArg
                     ELSE [ids |-> ids, result |-> ex.result], r.err, r.net)
                EXCEPT !.names = r.names]
    /\ UNCHANGED <<activeClients, heap, issued, callers>>

ResolveTeacherIDCall(h, teacher, ex) ==
    \E r \in {ResolveTeacherID(heap[h], teacher, ex)} :
    /\ last' = [Call("ResolveTeacherID", h, heap[h],
                     IF r.net = <<>> THEN NoArg
                     ELSE [name |-> teacher, result |-> ex.result],
                     r.err, r.net)
                EXCEPT !.id = r.id]
    /\ UNCHANGED <<activeClients, heap, issued, callers>>

ResolveClassIDCall(h, class, ex) ==
    \E r \in {ResolveClassID(heap[h], class, ex)} :
    /\ last' = [Call("ResolveClassID", h, heap[h],
                     IF r.net = <<>> THEN NoArg
                     ELSE [name |-> class, result |-> ex.result],
                     r.err, r.net)
                EXCEPT !.id = r.id]
    /\ UNCHANGED <<activeClients, heap, issued, callers>>

\* what a timetable call was given, as far as the call got to see it
FetchArg(r, name, ex) ==
    IF r.net = <<>> THEN NoArg ELSE [name |-> name, result |-> ex.result]

\* the same for the variants that look a name up first
NamedFetchArg(r, name, nameEx, ex) ==
    IF r.net = <<>> THEN NoArg
    ELSE [name |-> name, listing |-> nameEx.result, result |-> ex.result]

GetTimetableOfTeacherCall(h, in) ==
    \E r \in {GetTimetableOfTeacher(heap[h], in.ex, in.script)} :
    /\ last' = [Call("GetTimetableOfTeacher", h, heap[h],
                     FetchArg(r, "", in.ex),
                     r.err, r.net)
                EXCEPT !.lessons = r.lessons]
    /\ UNCHANGED <<activeClients, heap, issued, callers>>

GetTimetableOfClassCall(h, class, nameEx, in) ==
    \E r \in {GetTimetableOfClass(heap[h], class, nameEx, in.ex, in.script)} :
    /\ last' = [Call("GetTimetableOfClass", h, heap[h],
                     NamedFetchArg(r, class, nameEx, in.ex),
                     r.err, r.net)
                EXCEPT !.lessons = r.lessons]
    /\ UNCHANGED <<activeClients, heap, issued, callers>>

GetTimetableOfSpecificTeacherCall(h, teacher, nameEx, in) ==
    \E r \in {GetTimetableOfSpecificTeacher(heap[h], teacher, nameEx, in.ex,
                                           in.script)} :
    /\ last' = [Call("GetTimetableOfSpecificTeacher", h, heap[h],
                     NamedFetchArg(r, teacher, nameEx, in.ex),
                     r.err, r.net)
                EXCEPT !.lessons = r.lessons]
    /\ UNCHANGED <<activeClients, heap, issued, callers>>

\* the two package-level functions take a time and no receiver
GetLessonNrByStartCall(hour, minute) ==
    /\ last' = [Call("GetLessonNrByStart", 0, ZeroClient,
                     [hour |-> hour, minute |-> minute], "nil", <<>>)
                EXCEPT !.id = GetLessonNrByStart(hour, minute)]
    /\ UNCHANGED <<activeClients, heap, issued, callers>>

GetLessonNrByEndCall(hour, minute) ==
    /\ last' = [Call("GetLessonNrByEnd", 0, ZeroClient,
                     [hour |-> hour, minute |-> minute], "nil", <<>>)
                EXCEPT !.id = GetLessonNrByEnd(hour, minute)]
    /\ UNCHANGED <<activeClients, heap, issued, callers>>

----------------------------------------------------------------------------
(* What the service sends: listings and timetables *)

ClassListing ==
    <<[ID |-> 1, Name |-> "5AHIF"], [ID |-> 2, Name |-> "5BHIF"]>>

RoomListing ==
    <<[ID |-> 3, Name |-> "E12"], [ID |-> 4, Name |-> "H930"]>>

JohnSmith == <<"J", "o", "h", "n", " ", "S", "M", "I", "T", "H">>

TeacherListing ==
    <<[ID |-> 6, Name |-> "Jones",
       ForeName |-> <<"A", "n", "n">>,
       LongName |-> <<"J", "O", "N", "E", "S", " ", "A", "n", "n">>],
      [ID |-> 7, Name |-> "Smith",
       ForeName |-> <<"J", "o", "h", "n">>,
       LongName |-> <<"S", "M", "I", "T", "H", " ", "J", "o", "n", "a",
                      "t", "h", "a", "n">>]>>

\* the list of {"id": n} objects a record names its classes, teachers and
\* rooms by
Refs(ids) == [i \in 1..Len(ids) |-> [ID |-> ids[i]]]

Rec(date, startTime, endTime, kl, te, ro) ==
    [Date |-> date, StartTime |-> startTime, EndTime |-> endTime,
     Kl |-> Refs(kl), Te |-> Refs(te), Ro |-> Refs(ro)]

\* the record of the scenario, one with a foreign key no listing holds, and
\* one whose start time has a single digit
RecordPool ==
    {Rec(20240311, 800, 850, <<1>>, <<7>>, <<3>>),
     Rec(20240312, 1715, 1800, <<2, 1>>, <<9, 7>>, <<>>),
     Rec(20240311, 5, 850, <<1>>, <<7>>, <<3>>)}

Timetables == UNION {[1..n -> RecordPool] : n \in 0..MaxRecords}

FullTimetable ==
    [i \in 1..MaxRecords |->
        IF i % 2 = 1 THEN Rec(20240311, 800, 850, <<1>>, <<7>>, <<3>>)
        ELSE Rec(20240312, 1715, 1800, <<2, 1>>, <<9, 7>>, <<>>)]

\* the listing the k-th resolver call of a fetch asks for
ListingAt(k) == IF k % 3 = 1 THEN ClassListing
                ELSE IF k % 3 = 2 THEN TeacherListing
                ELSE RoomListing

Matched(result) == OkExchange(5, <<"5">>, result)
Mismatched(result) == OkExchange(5, <<"1", "2">>, result)

\* the answers to the resolver calls of a fetch: all of them good but the
\* k-th, which fails in the given way (k = 0: none fails)
Script(k, how) ==
    [j \in 1..(3 * MaxRecords) |->
        IF j # k THEN Matched(ListingAt(j))
        ELSE IF how = "mismatch" THEN Mismatched(ListingAt(j))
        ELSE FailedExchange(how)]

OkScript == Script(0, "neterr")

Scripts ==
    {OkScript} \cup
    {Script(k, how) : k \in 1..(3 * MaxRecords),
                      how \in {"neterr", "badjson", "mismatch"}}

FetchIn(ex, script) == [ex |-> ex, script |-> script]

\* one input varied at a time: the answer to getTimetable, the timetable, and
\* the answers to the resolver calls
FetchInputs ==
    {FetchIn(ex, OkScript) : ex \in FailedExchanges} \cup
    {FetchIn(OkExchange(p.reqId, p.respId, FullTimetable), OkScript) :
        p \in IdPairs} \cup
    {FetchIn(Matched(tt), OkScript) : tt \in Timetables} \cup
    {FetchIn(Matched(FullTimetable), sc) : sc \in Scripts}

ListingExchanges(listing) ==
    {FailedExchange("neterr"), Matched(listing), Mismatched(listing)}

\* the same for the variants that resolve a name first: the answer to the
\* listing request varied for one fetch, and every fetch after a good answer
NamedFetchInputs(listing) ==
    {[nameEx |-> nameEx, ex |-> Matched(FullTimetable), script |-> OkScript] :
        nameEx \in ListingExchanges(listing)} \cup
    {[nameEx |-> Matched(listing), ex |-> in.ex, script |-> in.script] :
        in \in FetchInputs}

\* every answer to a listing request: none, and the listing under each id
ListingAnswers(listing) ==
    FailedExchanges \cup
    {OkExchange(p.reqId, p.respId, listing) : p \in IdPairs}

\* a listing whose long names are not in capitals, and one teacher twice
MixedListing ==
    <<[ID |-> 8, Name |-> "Brown",
       ForeName |-> <<"B", "o", "b">>,
       LongName |-> <<"B", "r", "o", "w", "n", " ", "B", "o", "b">>],
      [ID |-> 6, Name |-> "Jones",
       ForeName |-> <<"A", "n", "n">>,
       LongName |-> <<"J", "O", "N", "E", "S", " ", "A", "n", "n">>],
      [ID |-> 9, Name |-> "Jones2",
       ForeName |-> <<"A", "n", "n">>,
       LongName |-> <<"J", "O", "N", "E", "S">>]>>

Smith == <<"S", "m", "i", "t", "h">>
BobBrown == <<"B", "o", "b", " ", "B", "r", "o", "w", "n">>

\* display names: of the scenario, in small letters, of three words, of one
\* word, empty, with two spaces, and of nobody
TeacherNames ==
    {JohnSmith,
     <<"J", "o", "h", "n", " ", "s", "m", "i", "t", "h">>,
     <<"A", "n", "n", " ", "J", "o", "n", "e", "s", " ", "M", "A">>,
     Smith,
     <<>>,
     <<"A", "n", "n", " ", " ", "J", "O", "N", "E", "S">>,
     BobBrown,
     <<"E", "v", "e", " ", "M", "O", "S", "S">>}

ClassNames == {"5AHIF", "5BHIF", "1CHIF"}

----------------------------------------------------------------------------
(* Inputs drawn before the call they are handed to *)

\* largest number of ids handed to a resolver
MaxIds == 2
\* largest number of records in a listing
MaxListing == 3

IdLists == UNION {[1..n -> 1..3] : n \in 0..MaxIds}

\* two records share an id
NamedRecords ==
    {[ID |-> 1, Name |-> "A"], [ID |-> 2, Name |-> "B"], [ID |-> 1, Name |-> "C"]}

Listings == UNION {[1..n -> NamedRecords] : n \in 0..MaxListing}

\* packed times from 0:01 to 23:59
PackedTimes == {t \in 1..2359 : t % 100 < 60}

DrawnInputs ==
    {[ids |-> ids, result |-> listing] : ids \in IdLists, listing \in Listings}
    \cup {[packed |-> t] : t \in PackedTimes}
    \cup {[hour |-> hour, minute |-> minute] : hour \in Hours, minute \in Minutes}

\* the record of a caller that has created its client and authenticated
Session ==
    Authenticate(NewClient("jdoe", "secret"),
                 Matched(AuthResult(JStr("ABC123"), JNum(20), JNum(50)))).client

\* the state after CreateClient and Authenticate, and the input of the call
\* that comes next
InitDrawn ==
    /\ activeClients = Put(<<>>, "jdoe", NewClient("jdoe", "secret"))
    /\ heap = <<Session>>
    /\ issued = Put(<<>>, "jdoe", 1)
    /\ callers = NoCalls
    /\ \E in \in DrawnInputs :
          last = Call("input", 1, Session, in, "nil", <<>>)

\* the input of the next call has this field
Drawn(field) == last.op = "input" /\ field \in DOMAIN last.arg

ResolveTeachersDrawn ==
    /\ Drawn("ids")
    /\ ResolveTeachersCall(1, last.arg.ids, Matched(last.arg.result))

ResolveRoomsDrawn ==
    /\ Drawn("ids")
    /\ ResolveRoomsCall(1, last.arg.ids, Matched(last.arg.result))

ResolveClassesDrawn ==
    /\ Drawn("ids")
    /\ ResolveClassesCall(1, last.arg.ids, Matched(last.arg.result))

\* a timetable of one record that starts and ends at the drawn time
GetTimetableDrawn ==
    /\ Drawn("packed")
    /\ GetTimetableOfTeacherCall(1,
          FetchIn(Matched(<<Rec(20240311, last.arg.packed, last.arg.packed,
                                <<1>>, <<7>>, <<3>>)>>),
                  OkScript))

GetLessonNrByStartDrawn ==
    /\ Drawn("hour")
    /\ GetLessonNrByStartCall(last.arg.hour, last.arg.minute)

GetLessonNrByEndDrawn ==
    /\ Drawn("hour")
    /\ GetLessonNrByEndCall(last.arg.hour, last.arg.minute)

----------------------------------------------------------------------------
(* Authenticate and Close statement by statement, for callers that hold the
   same pointer and call at the same time.  Nothing orders their reads and
   writes of the record, so every interleaving of the statements can happen. *)

\* largest number of calls the callers begin
MaxCalls == 4

\* the pointer the callers share
Shared == 1

\* the fields Authenticate assigns, in the order of its assignments
Assigned == <<"SessionID", "PersonType", "PersonID", "Authenticated", "Closed">>

RaceFrame == UNCHANGED <<activeClients, issued, last>>

\* if client.Authenticated { return ... }
AuthenticateEnter(c) ==
    /\ Shared \in Handles
    /\ callers.pc[c] = "idle"
    /\ callers.begun < MaxCalls
    /\ callers' = [callers EXCEPT
                      !.begun = @ + 1,
                      !.pc[c] = IF heap[Shared].Authenticated THEN "idle"
                                ELSE "post"]
    /\ UNCHANGED heap
    /\ RaceFrame

\* the round trip and the checks of its answer: the call goes on to its
\* assignments when the sequential Authenticate would have succeeded
AuthenticatePost(c, ex) ==
    /\ callers.pc[c] = "post"
    /\ callers' = IF Handshake(heap[Shared], ex).err = "nil"
                  THEN [callers EXCEPT !.pc[c] = Assigned[1],
                                       !.got[c] = ex.result,
                                       !.handshakes = @ + 1]
                  ELSE [callers EXCEPT !.pc[c] = "idle"]
    /\ UNCHANGED heap
    /\ RaceFrame

\* one of the five assignments
AuthenticateAssign(c) ==
    /\ \E n \in 1..Len(Assigned) :
          /\ callers.pc[c] = Assigned[n]
          /\ heap' = [heap EXCEPT ![Shared][Assigned[n]] =
                        SetSession(heap[Shared], callers.got[c].sessionId.s,
                                   AsFloat(callers.got[c].personType),
                                   AsFloat(callers.got[c].personId))[Assigned[n]]]
          /\ callers' = [callers EXCEPT
                            !.pc[c] = IF n < Len(Assigned) THEN Assigned[n + 1]
                                      ELSE "idle",
                            !.got[c] = IF n < Len(Assigned) THEN @ ELSE NoArg]
    /\ RaceFrame

\* if !client.Authenticated { return ... }
CloseEnter(c) ==
    /\ Shared \in Handles
    /\ callers.pc[c] = "idle"
    /\ callers.begun < MaxCalls
    /\ callers' = [callers EXCEPT
                      !.begun = @ + 1,
                      !.pc[c] = IF heap[Shared].Authenticated THEN "setClosed"
                                ELSE "idle"]
    /\ UNCHANGED heap
    /\ RaceFrame

\* client.Closed = true
CloseSetClosed(c) ==
    /\ callers.pc[c] = "setClosed"
    /\ heap' = [heap EXCEPT ![Shared].Closed = TRUE]
    /\ callers' = [callers EXCEPT !.pc[c] = "setAuthenticated"]
    /\ RaceFrame

\* client.Authenticated = false
CloseSetAuthenticated(c) ==
    /\ callers.pc[c] = "setAuthenticated"
    /\ heap' = [heap EXCEPT ![Shared].Authenticated = FALSE]
    /\ callers' = [callers EXCEPT !.pc[c] = "logout"]
    /\ RaceFrame

\* client.sendRequest("logout", ...), whatever becomes of it
CloseLogout(c) ==
    /\ callers.pc[c] = "logout"
    /\ callers' = [callers EXCEPT !.pc[c] = "idle", !.logouts = @ + 1]
    /\ UNCHANGED heap
    /\ RaceFrame

----------------------------------------------------------------------------

(* The registry and the session flags: several users and handles, a few
   answers to authenticate *)

Next ==
    \/ \E u \in Usernames, p \in Passwords, keep \in BOOLEAN :
          CreateClient(u, p, keep)
    \/ \E u \in Usernames : GetClient(u)
    \/ \E h \in Handles : DeleteClient(h)
    \/ \E h \in Handles, ex \in FewAuthExchanges : AuthenticateCall(h, ex)
    \/ \E h \in Handles, ex \in LogoutExchanges : CloseCall(h, ex)

Spec == Init /\ [][Next]_vars

(* One session, every answer to authenticate *)

OneSession ==
    /\ heap = <<>>
    /\ \/ CreateClient("jdoe", "secret", TRUE)
       \/ GetClient("jdoe")

NextAuth ==
    \/ OneSession
    \/ \E h \in Handles, ex \in AuthExchanges : AuthenticateCall(h, ex)
    \/ \E h \in Handles, ex \in LogoutExchanges : CloseCall(h, ex)

SpecAuth == Init /\ [][NextAuth]_vars

(* One session, every operation on it, every course of a timetable fetch *)

NextFetch ==
    \/ OneSession
    \/ \E h \in Handles, ex \in FewAuthExchanges : AuthenticateCall(h, ex)
    \/ \E h \in Handles, ex \in LogoutExchanges : CloseCall(h, ex)
    \/ \E h \in Handles, ex \in ListingAnswers(TeacherListing) :
          ResolveTeachersCall(h, <<7, 5>>, ex)
    \/ \E h \in Handles, ex \in ListingAnswers(RoomListing) :
          ResolveRoomsCall(h, <<3>>, ex)
    \/ \E h \in Handles, ex \in ListingAnswers(ClassListing) :
          ResolveClassesCall(h, <<1>>, ex)
    \/ \E h \in Handles, ex \in ListingAnswers(TeacherListing) :
          ResolveTeacherIDCall(h, JohnSmith, ex)
    \/ \E h \in Handles, teacher \in TeacherNames,
          listing \in {TeacherListing, MixedListing} :
          ResolveTeacherIDCall(h, teacher, Matched(listing))
    \/ \E h \in Handles, ex \in ListingAnswers(ClassListing) :
          ResolveClassIDCall(h, "5AHIF", ex)
    \/ \E h \in Handles, class \in ClassNames :
          ResolveClassIDCall(h, class, Matched(ClassListing))
    \/ \E h \in Handles, in \in FetchInputs : GetTimetableOfTeacherCall(h, in)
    \/ \E h \in Handles, in \in NamedFetchInputs(ClassListing) :
          GetTimetableOfClassCall(h, "5AHIF", in.nameEx, in)
    \/ \E h \in Handles :
          GetTimetableOfClassCall(h, "1CHIF", Matched(ClassListing),
                                  FetchIn(Matched(FullTimetable), OkScript))
    \/ \E h \in Handles, in \in NamedFetchInputs(TeacherListing) :
          GetTimetableOfSpecificTeacherCall(h, JohnSmith, in.nameEx, in)
    \/ \E h \in Handles, teacher \in {Smith, BobBrown} :
          GetTimetableOfSpecificTeacherCall(h, teacher, Matched(TeacherListing),
                                  FetchIn(Matched(FullTimetable), OkScript))

SpecFetch == Init /\ [][NextFetch]_vars

(* One session and every operation on it, DeleteClient included, with one
   good answer each and a failing one for the timetable calls; two tokens *)

\* the answers of the first specification, and a session with another token
TokenExchanges ==
    FewAuthExchanges \cup
    {Matched(AuthResult(JStr("XYZ789"), JNum(25), JNum(-15)))}

\* the timetable of the scenario with every resolver call answered, and with
\* the second of them failing
OneLesson(script) ==
    FetchIn(Matched(<<Rec(20240311, 800, 850, <<1>>, <<7>>, <<3>>)>>), script)

FewFetches == {OneLesson(OkScript), OneLesson(Script(2, "neterr"))}

NextOps ==
    \/ OneSession
    \/ \E h \in Handles : DeleteClient(h)
    \/ \E h \in Handles, ex \in TokenExchanges : AuthenticateCall(h, ex)
    \/ \E h \in Handles, ex \in LogoutExchanges : CloseCall(h, ex)
    \/ \E h \in Handles :
          ResolveTeachersCall(h, <<7>>, Matched(TeacherListing))
    \/ \E h \in Handles : ResolveRoomsCall(h, <<3>>, Matched(RoomListing))
    \/ \E h \in Handles : ResolveClassesCall(h, <<1>>, Matched(ClassListing))
    \/ \E h \in Handles :
          ResolveTeacherIDCall(h, JohnSmith, Matched(TeacherListing))
    \/ \E h \in Handles : ResolveClassIDCall(h, "5AHIF", Matched(ClassListing))
    \/ \E h \in Handles, in \in FewFetches : GetTimetableOfTeacherCall(h, in)
    \/ \E h \in Handles, in \in FewFetches :
          GetTimetableOfClassCall(h, "5AHIF", Matched(ClassListing), in)
    \/ \E h \in Handles, in \in FewFetches :
          GetTimetableOfSpecificTeacherCall(h, JohnSmith,
                                            Matched(TeacherListing), in)

SpecOps == Init /\ [][NextOps]_vars

(* Several users, whose callers work on the records GetClient hands out, and
   every operation with one short answer: for the registry *)

GoodLogin == Matched(AuthResult(JStr("ABC123"), JNum(20), JNum(50)))

\* an answer to getTimetable without records
NoLessons == FetchIn(Matched(<<>>), OkScript)

\* the listing cut down to its first record
Short(listing) == SubSeq(listing, 1, 1)

NextAll ==
    \/ \E u \in Usernames, p \in Passwords : CreateClient(u, p, FALSE)
    \/ \E u \in Usernames : GetClient(u)
    \/ \E h \in Handles : DeleteClient(h)
    \/ \E h \in Handles : AuthenticateCall(h, GoodLogin)
    \/ \E h \in Handles : CloseCall(h, Matched(<<>>))
    \/ \E h \in Handles :
          ResolveTeachersCall(h, <<6>>, Matched(Short(TeacherListing)))
    \/ \E h \in Handles :
          ResolveRoomsCall(h, <<3>>, Matched(Short(RoomListing)))
    \/ \E h \in Handles :
          ResolveClassesCall(h, <<1>>, Matched(Short(ClassListing)))
    \/ \E h \in Handles :
          ResolveTeacherIDCall(h, JohnSmith, Matched(Short(TeacherListing)))
    \/ \E h \in Handles :
          ResolveClassIDCall(h, "5AHIF", Matched(Short(ClassListing)))
    \/ \E h \in Handles : GetTimetableOfTeacherCall(h, NoLessons)
    \/ \E h \in Handles :
          GetTimetableOfClassCall(h, "5AHIF", Matched(Short(ClassListing)),
                                  NoLessons)
    \/ \E h \in Handles :
          GetTimetableOfSpecificTeacherCall(h, <<"A", "n", "n", " ", "J", "O",
                                               "N", "E", "S">>,
                                            Matched(Short(TeacherListing)),
                                            NoLessons)

SpecAll == Init /\ [][NextAll]_vars

(* One record, and two callers inside Authenticate and Close at once *)

NextRace ==
    \/ OneSession
    \/ \E c \in Callers : AuthenticateEnter(c)
    \/ \E c \in Callers, ex \in FewAuthExchanges : AuthenticatePost(c, ex)
    \/ \E c \in Callers : AuthenticateAssign(c)
    \/ \E c \in Callers : CloseEnter(c)
    \/ \E c \in Callers : CloseSetClosed(c)
    \/ \E c \in Callers : CloseSetAuthenticated(c)
    \/ \E c \in Callers : CloseLogout(c)

SpecRace == Init /\ [][NextRace]_vars

(* One authenticated session and one call on an input drawn beforehand *)

NextDrawn ==
    \/ ResolveTeachersDrawn
    \/ ResolveRoomsDrawn
    \/ ResolveClassesDrawn
    \/ GetTimetableDrawn
    \/ GetLessonNrByStartDrawn
    \/ GetLessonNrByEndDrawn

SpecDrawn == InitDrawn /\ [][NextDrawn]_vars

----------------------------------------------------------------------------
(* Properties *)

\* the receiver of the most recent call, as the call left it
Receiver == heap[last.h]

\* the most recent call sent its first request and got an answer to it
Answered == last.net # <<>> /\ last.net[1].status = "ok"

\* C1: in every reachable state no Client record, whether a caller points to
\* it or the registry holds it, has Authenticated and Closed both set.
C1_NotAuthenticatedAndClosed ==
    /\ \A h \in Handles : ~(heap[h].Authenticated /\ heap[h].Closed)
    /\ \A u \in DOMAIN activeClients :
          ~(activeClients[u].Authenticated /\ activeClients[u].Closed)

\* Close has just taken an authenticated record to Closed
C1_Witness ==
    /\ last.op = "Close"
    /\ last.pre.Authenticated
    /\ Receiver.Closed

\* C2: in every reachable state the SessionID of a record is non-empty exactly
\* when the record is Authenticated.
C2_TokenIffAuthenticated ==
    \A h \in Handles : (heap[h].SessionID # "") <=> heap[h].Authenticated

AuthenticatedOnlyOps ==
    {"ResolveTeachers", "ResolveRooms", "ResolveClasses", "ResolveTeacherID",
     "ResolveClassID", "GetTimetableOfTeacher", "GetTimetableOfClass",
     "GetTimetableOfSpecificTeacher", "Close"}

\* C4: each of the nine operations that need a session, called on a record
\* that is not Authenticated, returns "not authenticated" and sends no request.
C4_NotAuthenticatedSendsNothing ==
    (last.op \in AuthenticatedOnlyOps /\ ~last.pre.Authenticated) =>
        /\ last.err = "not authenticated"
        /\ last.net = <<>>

\* a timetable was asked of a Closed record
C4_Witness ==
    /\ last.op = "GetTimetableOfTeacher"
    /\ last.pre.Closed
    /\ last.err = "not authenticated"

\* C5: Authenticate on an Authenticated record returns "already
\* authenticated", sends nothing and leaves every field of the record as it was.
C5_AlreadyAuthenticated ==
    (last.op = "Authenticate" /\ last.pre.Authenticated) =>
        /\ last.err = "already authenticated"
        /\ last.net = <<>>
        /\ Receiver = last.pre

\* Authenticate was called on a record that holds a session
C5_Witness ==
    /\ last.op = "Authenticate"
    /\ last.pre.Authenticated
    /\ last.pre.SessionID # ""
    /\ Receiver.SessionID = last.pre.SessionID

\* C6: when the answer to authenticate carries an id string other than the
\* decimal string of the request id, Authenticate returns "IDs not matching"
\* and the record is as it was before the call.
C6_IdentifierMismatch ==
    (/\ last.op = "Authenticate"
     /\ Answered
     /\ last.net[1].respId # Itoa(last.net[1].reqId))
    => /\ last.err = "IDs not matching"
       /\ Receiver = last.pre

\* the answer's id string denotes the request id without being its decimal
\* string
C6_Witness ==
    /\ last.op = "Authenticate"
    /\ Answered
    /\ last.net[1].reqId = 5
    /\ last.net[1].respId = <<"0", "5">>
    /\ last.err = "IDs not matching"

\* the integer a JSON value is taken as: its whole part when it is a number,
\* 0 when it is absent or of another type
WholePart(v) ==
    IF v.k # "number" THEN 0
    ELSE CHOOSE i \in -100..100 :
            \/ v.n >= 0 /\ 10 * i <= v.n /\ v.n < 10 * i + 10
            \/ v.n < 0 /\ 10 * i >= v.n /\ v.n > 10 * i - 10

\* C7: when a record that is not Authenticated authenticates and the answer
\* carries the decimal string of the request id and a string sessionId, the
\* call returns no error and the record is Authenticated, not Closed, with
\* SessionID the sessionId and PersonType and PersonID the whole parts of
\* personType and personId, 0 for one that is absent or not a number.
C7_Authenticates ==
    (/\ last.op = "Authenticate"
     /\ ~last.pre.Authenticated
     /\ Answered
     /\ last.net[1].respId = Itoa(last.net[1].reqId)
     /\ last.arg.result.sessionId.k = "string")
    => /\ last.err = "nil"
       /\ Receiver.Authenticated
       /\ ~Receiver.Closed
       /\ Receiver.SessionID = last.arg.result.sessionId.s
       /\ Receiver.PersonType = WholePart(last.arg.result.personType)
       /\ Receiver.PersonID = WholePart(last.arg.result.personId)
       /\ Receiver.Username = last.pre.Username
       /\ Receiver.Password = last.pre.Password

\* a handshake whose personType is a string and whose personId is missing
C7_Witness ==
    /\ last.op = "Authenticate"
    /\ last.err = "nil"
    /\ last.arg.result.personType.k = "string"
    /\ last.arg.result.personId.k = "absent"
    /\ Receiver.PersonType = 0
    /\ Receiver.PersonID = 0

\* C8: Close on an Authenticated record sends logout once and leaves the
\* record Closed and not Authenticated whether or not the request got
\* through; the transport error, if any, is what Close returns; Close on a
\* record that is not Authenticated, a Closed one included, returns "not
\* authenticated" and changes nothing.
C8_CloseAlwaysCloses ==
    last.op = "Close" =>
        /\ last.pre.Authenticated =>
              /\ Receiver.Closed
              /\ ~Receiver.Authenticated
              /\ Len(last.net) = 1
              /\ last.net[1].method = "logout"
              /\ (last.err = "transport") <=> (last.net[1].status = "neterr")
              /\ (last.err = "nil") <=> (last.net[1].status # "neterr")
        /\ ~last.pre.Authenticated =>
              /\ last.err = "not authenticated"
              /\ Receiver = last.pre

\* logout did not get through and the record is Closed all the same
C8_Witness ==
    /\ last.op = "Close"
    /\ last.err = "transport"
    /\ Receiver.Closed
    /\ ~Receiver.Authenticated

\* what a caller sees of a session
Shown(client) ==
    <<client.Authenticated, client.Closed, client.SessionID,
      client.PersonType, client.PersonID>>

\* C9: once the record CreateClient(u) returned has authenticated (or has
\* been closed after that), what GetClient(u) returns shows the same flags,
\* token, person type and person id as that record.
C9_GetClientSharesTheSession ==
    (/\ last.op = "GetClient"
     /\ last.arg.username \in DOMAIN issued
     /\ issued[last.arg.username] # 0
     /\ \/ heap[issued[last.arg.username]].Authenticated
        \/ heap[issued[last.arg.username]].Closed)
    => Shown(Receiver) = Shown(heap[issued[last.arg.username]])

FetchOps ==
    {"GetTimetableOfTeacher", "GetTimetableOfClass",
     "GetTimetableOfSpecificTeacher"}

\* a round trip that failed: nothing came back, what came back could not be
\* decoded, or it carried the id of another request
FailedTrip(trip) ==
    \/ trip.status # "ok"
    \/ \E n \in 0..20 : n # trip.reqId /\ trip.respId = Itoa(n)

\* the i-th round trip of the most recent call is the one that looks up the
\* class name before the timetable of a class is fetched
NameLookup(i) == last.op = "GetTimetableOfClass" /\ i = 1

\* C10: a timetable call ends in one of two ways: with no error and one lesson
\* per record of the answer, or with an error and no lesson list at all.  It
\* ends the second way whenever getTimetable or a per-record resolver call
\* failed, also after earlier records were normalized.
C10_NoPartialTimetable ==
    last.op \in FetchOps =>
        /\ \/ /\ last.err = "nil"
              /\ ~last.lessons.nil
              /\ Len(last.lessons.list) = Len(last.arg.result)
           \/ /\ last.err # "nil"
              /\ last.lessons.nil
              /\ last.lessons.list = <<>>
        /\ \A i \in 1..Len(last.net) :
              (FailedTrip(last.net[i]) /\ ~NameLookup(i)) => last.err # "nil"

\* a resolver call failed after the first record had been normalized
C10_Witness ==
    /\ last.op = "GetTimetableOfTeacher"
    /\ Len(last.net) > 4
    /\ FailedTrip(last.net[Len(last.net)])
    /\ last.err # "nil"
    /\ last.lessons.nil

NamedFetchOps == {"GetTimetableOfClass", "GetTimetableOfSpecificTeacher"}

\* str begins with prefix
StartsWith(str, prefix) ==
    Len(prefix) <= Len(str) /\ SubSeq(str, 1, Len(prefix)) = prefix

\* the listing the name was looked up in has no record for it: no class of
\* that name, no teacher whose given name the display name begins with
NameUnknown ==
    \/ /\ last.op = "GetTimetableOfClass"
       /\ \A i \in 1..Len(last.arg.listing) :
             last.arg.listing[i].Name # last.arg.name
    \/ /\ last.op = "GetTimetableOfSpecificTeacher"
       /\ \A i \in 1..Len(last.arg.listing) :
             ~StartsWith(last.arg.name, last.arg.listing[i].ForeName)

\* the lookup of the name, the first round trip of the call, failed
NameLookupFailed ==
    \/ FailedTrip(last.net[1])
    \/ last.net[1].status = "ok" /\ NameUnknown

\* C11: when the lookup of the name fails in GetTimetableOfClass or
\* GetTimetableOfSpecificTeacher (no answer, an answer to another request, or
\* no record of that name), the call returns an error and no lessons and sends
\* no getTimetable request.
C11_NameFailureAborts ==
    (last.op \in NamedFetchOps /\ last.net # <<>> /\ NameLookupFailed) =>
        /\ last.err # "nil"
        /\ last.lessons.nil
        /\ \A i \in 1..Len(last.net) : last.net[i].method # "getTimetable"

ListResolvers == {"ResolveTeachers", "ResolveRooms", "ResolveClasses"}

\* the first record of the listing with that id, 0 when there is none
FirstWithId(id, listing) ==
    IF \E j \in 1..Len(listing) : listing[j].ID = id
    THEN CHOOSE j \in 1..Len(listing) :
            /\ listing[j].ID = id
            /\ \A k \in 1..(j - 1) : listing[k].ID # id
    ELSE 0

\* C12: a resolver of id lists returns at most as many names as it was given
\* ids, and every name it returns is that of the first record with the id of
\* some input id.
C12_AtMostOneNamePerId ==
    (last.op \in ListResolvers /\ last.err = "nil") =>
        /\ Len(last.names.list) <= Len(last.arg.ids)
        /\ \A n \in 1..Len(last.names.list) :
              \E i \in 1..Len(last.arg.ids) :
                 /\ FirstWithId(last.arg.ids[i], last.arg.result) # 0
                 /\ last.names.list[n] =
                       last.arg.result[FirstWithId(last.arg.ids[i],
                                                   last.arg.result)].Name

\* the pairs of an input id and a record of the listing that carries it
Matches(ids, listing) ==
    {<<i, j>> \in (1..Len(ids)) \X (1..Len(listing)) : ids[i] = listing[j].ID}

\* C13: a resolver of id lists whose answer carries the id of its request
\* returns no error and a list of names, each the name of a record whose id is
\* among the input ids; an input id no record carries adds nothing to the
\* list, so that the list has one name per pair of an input id and a record
\* that carries it, and none when no record carries any of them.
C13_OnlyMatchedNames ==
    (/\ last.op \in ListResolvers
     /\ Answered
     /\ last.net[1].respId = Itoa(last.net[1].reqId))
    => /\ last.err = "nil"
       /\ ~last.names.nil
       /\ \A n \in 1..Len(last.names.list) :
             \E m \in Matches(last.arg.ids, last.arg.result) :
                last.names.list[n] = last.arg.result[m[2]].Name
       /\ Len(last.names.list) =
             Cardinality(Matches(last.arg.ids, last.arg.result))

\* two ids were asked for, one of them in no record, and one name came back
C13_Witness ==
    /\ last.op = "ResolveRooms"
    /\ last.err = "nil"
    /\ last.arg.ids = <<3, 2>>
    /\ last.names.list = <<"B">>

\* the ids a record names, in the order it names them
RefIds(refs) == [j \in 1..Len(refs) |-> refs[j].ID]

\* C14: a timetable call that returns no error returns one lesson per record
\* of the answer, the i-th lesson made of the i-th record: it lies on that
\* record's date and its ClassIDs, TeacherIDs and RoomIDs are the ids of the
\* record's kl, te and ro, in the record's order.
C14_OneLessonPerRecord ==
    (last.op \in FetchOps /\ last.err = "nil") =>
        /\ Len(last.lessons.list) = Len(last.arg.result)
        /\ \A i \in 1..Len(last.arg.result) :
              /\ last.lessons.list[i].Start.year * 10000
                    + last.lessons.list[i].Start.month * 100
                    + last.lessons.list[i].Start.day = last.arg.result[i].Date
              /\ last.lessons.list[i].ClassIDs = RefIds(last.arg.result[i].Kl)
              /\ last.lessons.list[i].TeacherIDs = RefIds(last.arg.result[i].Te)
              /\ last.lessons.list[i].RoomIDs = RefIds(last.arg.result[i].Ro)

\* two records of different dates, the second with two teachers
C14_Witness ==
    /\ last.op = "GetTimetableOfSpecificTeacher"
    /\ last.err = "nil"
    /\ Len(last.lessons.list) = 2
    /\ last.lessons.list[1].Start.day # last.lessons.list[2].Start.day
    /\ last.lessons.list[2].TeacherIDs = <<9, 7>>

\* C15: a record whose startTime and endTime are a packed time t, 1 <= t <=
\* 2359 with minutes below 60, is made into a lesson without a fault, and the
\* hour and minute of its Start and of its End give t back as
\* hour * 100 + minute.
C15_PackedTimeRoundTrip ==
    (/\ last.op = "GetTimetableOfTeacher"
     /\ Answered
     /\ Len(last.arg.result) = 1
     /\ last.arg.result[1].StartTime \in PackedTimes
     /\ last.arg.result[1].EndTime \in PackedTimes)
    => /\ last.err = "nil"
       /\ Len(last.lessons.list) = 1
       /\ last.lessons.list[1].Start.hour * 100
             + last.lessons.list[1].Start.minute = last.arg.result[1].StartTime
       /\ last.lessons.list[1].End.hour * 100
             + last.lessons.list[1].End.minute = last.arg.result[1].EndTime

\* C16: GetLessonNrByStart returns, for every hour and minute: at hour 8, 1 on
\* minute 0 and 2 on minute 50; at hours 9 to 16, 3 to 10; at hour 17, 11 on
\* minute 0 and 12 on minute 45; at hours 18 to 20, 13 to 15; and -1 on
\* everything else, the other minutes of hours 8 and 17 included.
C16_PeriodFromStart ==
    last.op = "GetLessonNrByStart" =>
        /\ last.arg.hour \in Hours /\ last.arg.minute \in Minutes
        /\ last.id =
              (IF last.arg.hour = 8 /\ last.arg.minute = 0 THEN 1
               ELSE IF last.arg.hour = 8 /\ last.arg.minute = 50 THEN 2
               ELSE IF last.arg.hour \in 9..16 THEN last.arg.hour - 6
               ELSE IF last.arg.hour = 17 /\ last.arg.minute = 0 THEN 11
               ELSE IF last.arg.hour = 17 /\ last.arg.minute = 45 THEN 12
               ELSE IF last.arg.hour \in 18..20 THEN last.arg.hour - 5
               ELSE -1)

\* half past five in the afternoon starts no lesson
C16_Witness ==
    /\ last.op = "GetLessonNrByStart"
    /\ last.arg.hour = 17
    /\ last.arg.minute = 30
    /\ last.id = -1

\* C17: GetLessonNrByEnd returns, for every hour and minute: at hours 8 to 15,
\* 1 to 8; at hour 16, 9 on minute 0 and 10 on minute 50; at hours 17 to 21,
\* 11 to 15; and -1 on everything else, the other minutes of hour 16 included.
C17_PeriodFromEnd ==
    last.op = "GetLessonNrByEnd" =>
        /\ last.arg.hour \in Hours /\ last.arg.minute \in Minutes
        /\ last.id =
              (IF last.arg.hour \in 8..15 THEN last.arg.hour - 7
               ELSE IF last.arg.hour = 16 /\ last.arg.minute = 0 THEN 9
               ELSE IF last.arg.hour = 16 /\ last.arg.minute = 50 THEN 10
               ELSE IF last.arg.hour \in 17..21 THEN last.arg.hour - 6
               ELSE -1)

\* a quarter to five in the afternoon ends no lesson
C17_Witness ==
    /\ last.op = "GetLessonNrByEnd"
    /\ last.arg.hour = 16
    /\ last.arg.minute = 45
    /\ last.id = -1

CorrelatedOps ==
    {"ResolveTeachers", "ResolveRooms", "ResolveClasses", "ResolveTeacherID",
     "ResolveClassID"} \cup FetchOps

\* C18: in the resolvers and the timetable calls, an answer whose id string is
\* not the decimal string of the request id makes the call return "ids not
\* matching", and a call all of whose answers carry that string does not
\* return it.  (The lookup of the class name is left out here: what becomes of
\* its error is C11.)
C18_StringCorrelation ==
    last.op \in CorrelatedOps =>
        /\ \A i \in 1..Len(last.net) :
              (/\ last.net[i].status = "ok"
               /\ last.net[i].respId # Itoa(last.net[i].reqId)
               /\ ~NameLookup(i))
              => last.err = "ids not matching"
        /\ (\A i \in 1..Len(last.net) :
               /\ last.net[i].status = "ok"
               /\ last.net[i].respId = Itoa(last.net[i].reqId))
           => last.err # "ids not matching"

\* the number of records in the answer to getTimetable, 0 without one
Records == IF "result" \in DOMAIN last.arg THEN Len(last.arg.result) ELSE 0

SingleTripOps ==
    {"Authenticate", "Close", "ResolveTeachers", "ResolveRooms",
     "ResolveClasses", "ResolveTeacherID", "ResolveClassID"}

\* the most recent call was refused before it sent anything
Refused == last.err \in {"not authenticated", "already authenticated"}

\* C19 as stated: each of the three timetable calls makes at most 1 + 3N
\* round trips when the answer to getTimetable holds N records, and every
\* other operation that talks to the service makes exactly one.
C19_AtMostOnePlusThreeN ==
    /\ last.op \in FetchOps => Len(last.net) <= 1 + 3 * Records
    /\ (last.op \in SingleTripOps /\ ~Refused) => Len(last.net) = 1

\* C19 as amended: GetTimetableOfTeacher makes at most 1 + 3N round trips;
\* GetTimetableOfClass and GetTimetableOfSpecificTeacher make at most 2 + 3N,
\* the lookup of the name being one more; Authenticate, Close and the five
\* resolvers make exactly one unless they are refused, and a refused call and
\* the registry operations make none.
C19_RoundTrips ==
    /\ last.op = "GetTimetableOfTeacher" => Len(last.net) <= 1 + 3 * Records
    /\ last.op \in NamedFetchOps => Len(last.net) <= 2 + 3 * Records
    /\ (last.op \in SingleTripOps /\ ~Refused) => Len(last.net) = 1
    /\ Refused => last.net = <<>>
    /\ last.op \in {"CreateClient", "GetClient", "DeleteClient"} =>
          last.net = <<>>

\* the timetable of a class took 2 + 3N round trips
C19_Witness ==
    /\ last.op = "GetTimetableOfClass"
    /\ last.err = "nil"
    /\ Records = MaxRecords
    /\ Len(last.net) = 2 + 3 * MaxRecords

\* the place of the first space of str, 0 when it has none
FirstSpace(str) ==
    IF \E i \in 1..Len(str) : str[i] = " "
    THEN CHOOSE i \in 1..Len(str) :
            str[i] = " " /\ \A k \in 1..(i - 1) : str[k] # " "
    ELSE 0

\* str up to its first space
FirstToken(str) ==
    IF FirstSpace(str) = 0 THEN str ELSE SubSeq(str, 1, FirstSpace(str) - 1)

\* str after its first space
AfterFirstSpace(str) == SubSeq(str, FirstSpace(str) + 1, Len(str))

\* the record is the teacher of that display name
IsTeacher(res, displayName) ==
    /\ FirstSpace(displayName) # 0
    /\ res.ForeName = FirstToken(displayName)
    /\ ToUpper(FirstToken(res.LongName)) = ToUpper(AfterFirstSpace(displayName))

\* C20: ResolveTeacherID, given an answer that carries the id of its request,
\* returns the id of the first record whose ForeName is the display name up to
\* its first space and whose first LongName word, in capitals, is the rest of
\* the display name in capitals; and returns "teacher not found" when there is
\* no such record or the display name has no space.
C20_ResolveTeacherId ==
    (/\ last.op = "ResolveTeacherID"
     /\ Answered
     /\ last.net[1].respId = Itoa(last.net[1].reqId))
    => IF \E j \in 1..Len(last.arg.result) :
             IsTeacher(last.arg.result[j], last.arg.name)
       THEN /\ last.err = "nil"
            /\ last.id =
                  last.arg.result[
                      CHOOSE j \in 1..Len(last.arg.result) :
                         /\ IsTeacher(last.arg.result[j], last.arg.name)
                         /\ \A k \in 1..(j - 1) :
                               ~IsTeacher(last.arg.result[k], last.arg.name)].ID
       ELSE last.err = "teacher not found"

\* C24: however the statements of the Authenticate and Close calls of two
\* callers that share one record interleave, no more logout requests have
\* been sent than authenticate handshakes have been accepted.
C24_LogoutsWithinHandshakes == callers.logouts <= callers.handshakes

\* C22: when a record that is not Authenticated authenticates and the answer
\* carries the decimal string of the request id but no string sessionId (none
\* at all, or a value of another type), the call ends in the fault of the type
\* assertion and the record is as it was: not Authenticated, with the
\* SessionID, PersonType and PersonID it had.
C22_NoSessionIdFaults ==
    (/\ last.op = "Authenticate"
     /\ ~last.pre.Authenticated
     /\ Answered
     /\ last.net[1].respId = Itoa(last.net[1].reqId)
     /\ last.arg.result.sessionId.k # "string")
    => /\ last.err = "panic"
       /\ ~Receiver.Authenticated
       /\ Receiver.SessionID = last.pre.SessionID
       /\ Receiver.PersonType = last.pre.PersonType
       /\ Receiver.PersonID = last.pre.PersonID
       /\ Receiver = last.pre

\* a closed record that still holds its old token got an answer without
\* sessionId
C22_Witness ==
    /\ last.op = "Authenticate"
    /\ last.err = "panic"
    /\ last.pre.Closed
    /\ last.pre.SessionID # ""
    /\ last.arg.result.sessionId.k = "absent"
    /\ Receiver.SessionID = last.pre.SessionID

\* C21: every request other than authenticate carries the JSESSIONID cookie,
\* and its value is the SessionID the receiver held when the call began; and
\* the SessionID of a record changes only when Authenticate succeeds on that
\* record, to the sessionId of that answer.  So the cookie of every listing,
\* getTimetable and logout request is the token of the most recent successful
\* Authenticate on the record.
C21_CookieIsToken ==
    [][/\ \A i \in 1..Len(last'.net) :
             last'.net[i].method # "authenticate" =>
                /\ last'.net[i].hasCookie
                /\ last'.net[i].cookie = heap[last'.h].SessionID
       /\ \A h \in Handles :
             heap'[h].SessionID # heap[h].SessionID =>
                /\ last'.op = "Authenticate"
                /\ last'.h = h
                /\ last'.err = "nil"
       /\ (last'.op = "Authenticate" /\ last'.err = "nil") =>
             heap'[last'.h].SessionID = last'.arg.result.sessionId.s
      ]_vars

\* the lessons of a class were fetched under the second token: the lookup of
\* the name, getTimetable and the three resolver calls all carried it
C21_Witness ==
    /\ last.op = "GetTimetableOfClass"
    /\ last.err = "nil"
    /\ Len(last.net) = 5
    /\ \A i \in 1..Len(last.net) : last.net[i].cookie = "XYZ789"
    /\ Receiver.SessionID = "XYZ789"

FrameOps ==
    {"ResolveTeachers", "ResolveRooms", "ResolveClasses", "ResolveTeacherID",
     "ResolveClassID", "GetTimetableOfTeacher", "GetTimetableOfClass",
     "GetTimetableOfSpecificTeacher", "DeleteClient"}

\* C23: a step changes a record only if it is an Authenticate or a Close
\* call on that record; the resolvers, the timetable calls and DeleteClient,
\* whether they succeed or fail, leave every field of the record they are
\* called on as it was.
C23_OnlyAuthenticateAndCloseChange ==
    [][/\ \A h \in Handles :
             heap'[h] # heap[h] =>
                last'.op \in {"Authenticate", "Close"} /\ last'.h = h
       /\ last'.op \in FrameOps => heap'[last'.h] = last'.pre
      ]_vars

\* a timetable call failed half way on a record that holds a session, and the
\* record still holds it
C23_Witness ==
    /\ last.op = "GetTimetableOfSpecificTeacher"
    /\ last.err = "transport"
    /\ Len(last.net) > 2
    /\ Receiver.Authenticated
    /\ Receiver = last.pre

\* C25: GetClient for a username the registry has no entry for leaves the
\* registry as it is and returns a record that is not Authenticated and has
\* an empty SessionID; each of the nine operations that need a session, called
\* on that record next, returns "not authenticated" and sends nothing; and
\* DeleteClient takes the entry of the receiver's Username out of the registry
\* and leaves every other entry as it is.
C25_AbsentClient ==
    [][/\ (/\ last'.op = "GetClient"
            /\ last'.arg.username \notin DOMAIN activeClients)
           => /\ activeClients' = activeClients
              /\ ~heap'[last'.h].Authenticated
              /\ heap'[last'.h].SessionID = ""
       /\ (/\ last.op = "GetClient"
            /\ last.arg.username \notin DOMAIN activeClients
            /\ last'.op \in AuthenticatedOnlyOps
            /\ last'.h = last.h)
           => /\ last'.err = "not authenticated"
              /\ last'.net = <<>>
       /\ last'.op = "DeleteClient" =>
             activeClients' =
                [u \in DOMAIN activeClients \ {heap[last'.h].Username} |->
                    activeClients[u]]
      ]_vars

\* a timetable was asked of the record GetClient returned for a username
\* whose entry DeleteClient had removed, while another user's entry is there
C25_Witness ==
    /\ last.op = "GetTimetableOfTeacher"
    /\ last.err = "not authenticated"
    /\ Receiver = ZeroClient
    /\ \E h \in Handles : heap[h].Username = "jdoe"
    /\ DOMAIN activeClients = {"asmith"}

====
